---- MODULE Spec2Model ----
(***************************************************************************)
(* Model of the podcast analytics dashboard (src/app.py).                  *)
(*                                                                         *)
(* The module body of app.py (lines 14-36) runs once: it loads the CSV     *)
(* into df, and derives monthly_downloads, episodes_per_month and          *)
(* all_months.  After that the process serves two Dash callbacks,          *)
(* update_monthly_stats_graph and update_graph, each a synchronous         *)
(* request/response handler that receives the dropdown value of whichever  *)
(* browser client sent the request.  The server keeps no per-client state, *)
(* so requests of any number of clients are an arbitrary sequence of calls *)
(* of the two handlers with arbitrary values.                              *)
(*                                                                         *)
(* Timestamps are integers (pandas stores datetime64 as an integer count   *)
(* since the epoch); the model samples StampsPerMonth instants in each     *)
(* calendar month, starting in StartMonth of StartYear.  A monthly Period  *)
(* is its ordinal (months since 1970-01), as in pandas.  Strings that the  *)
(* program computes are sequences of character codes.  Cells of the CSV    *)
(* are well-formed: timestamps parse and downloads_total is an integer.    *)
(***************************************************************************)
EXTENDS Integers, Sequences, FiniteSets, TLC

VARIABLES pc, df, monthly_downloads, episodes_per_month, all_months, response

vars == <<pc, df, monthly_downloads, episodes_per_month, all_months, response>>

(***************************************************************************)
(* Bounds of the model.                                                    *)
(***************************************************************************)
MaxRows == 2
MaxStamp == 2
StampsPerMonth == 2
MaxDownloads == 1
DownloadUnit == 1200
StartYear == 2023
StartMonth == 9

Titles == {"A", "B"}
\* a dropdown value that matches no record (stale client state)
UnknownTitle == "Z"
\* the dropdown was cleared: Dash sends None
NoSelection == "None"
Selections == Titles \cup {UnknownTitle, NoSelection}

Timestamps == 0..MaxStamp
\* published_at is sampled at the first instant of each month
PublishStamps == {t \in Timestamps : t % StampsPerMonth = 0}
Downloads == {k * DownloadUnit : k \in 0..MaxDownloads}

CsvRows == [episode_title : Titles, published_at : PublishStamps,
            interval : Timestamps, downloads_total : Downloads]
\* an empty file does not start (line 54 reads the first title)
Datasets == UNION {[1..n -> CsvRows] : n \in 1..MaxRows}

(***************************************************************************)
(* Generic helpers.                                                        *)
(***************************************************************************)
Range(s) == {s[i] : i \in DOMAIN s}

Min(S) == CHOOSE x \in S : \A y \in S : x <= y

Max(S) == CHOOSE x \in S : \A y \in S : y <= x

RECURSIVE SeqSum(_)
SeqSum(s) == IF s = <<>> THEN 0 ELSE s[1] + SeqSum(Tail(s))

\* the elements of a set of integers in ascending order
RECURSIVE Ascending(_)
Ascending(S) == IF S = {} THEN <<>> ELSE <<Min(S)>> \o Ascending(S \ {Min(S)})

\* the subsequence of s at the positions in I, in order
Pick(s, I) == [k \in 1..Cardinality(I) |-> s[Ascending(I)[k]]]

Column(rows, c) == [i \in DOMAIN rows |-> rows[i][c]]

\* a missing value (NaN) is the empty cell, a present value v is <<v>>
NaN == <<>>

Val(v) == <<v>>

fillna(cell, v) == IF cell = NaN THEN v ELSE cell[1]

(***************************************************************************)
(* Calendar and strings.                                                   *)
(***************************************************************************)
\* Series.dt.to_period('M'): the month ordinal of a timestamp
to_period_M(t) == (StartYear - 1970) * 12 + (StartMonth - 1) + (t \div StampsPerMonth)

PeriodYear(p) == 1970 + (p \div 12)

PeriodMonth(p) == (p % 12) + 1

DayOfMonth(t) == 1 + (t % StampsPerMonth)

Digit(d) == 48 + d

Dash == 45

Comma == 44

\* Period.astype(str): "YYYY-MM"
period_str(p) ==
    LET y == PeriodYear(p)
        m == PeriodMonth(p)
    IN  <<Digit(y \div 1000), Digit((y \div 100) % 10), Digit((y \div 10) % 10),
          Digit(y % 10), Dash, Digit(m \div 10), Digit(m % 10)>>

\* str < str: lexicographic order of character codes
StrLess(a, b) ==
    \E k \in 1..(Len(a) + 1) :
        /\ k <= Len(b)
        /\ \A i \in 1..(k - 1) : a[i] = b[i]
        /\ (k = Len(a) + 1 \/ a[k] < b[k])

RECURSIVE Digits(_)
Digits(n) == IF n < 10 THEN <<Digit(n)>> ELSE Digits(n \div 10) \o <<Digit(n % 10)>>

RECURSIVE Grouped(_)
Grouped(n) ==
    IF n < 1000 THEN Digits(n)
    ELSE Grouped(n \div 1000) \o
         <<Comma, Digit((n \div 100) % 10), Digit((n \div 10) % 10), Digit(n % 10)>>

\* f"{int(x):,}"
FormatThousands(n) == IF n < 0 THEN <<Dash>> \o Grouped(0 - n) ELSE Grouped(n)

\* Timestamp.strftime('%B %d, %Y'): month name (by number), day, year
strftime(t) ==
    <<PeriodMonth(to_period_M(t)), DayOfMonth(t), PeriodYear(to_period_M(t))>>

(***************************************************************************)
(* Startup: the module body of app.py, lines 14-36.                        *)
(***************************************************************************)
\* line 27: df['publish_month'] = df['published_at'].dt.to_period('M')
with_publish_month(csv) ==
    [i \in DOMAIN csv |->
        [episode_title |-> csv[i].episode_title,
         published_at |-> csv[i].published_at,
         interval |-> csv[i].interval,
         downloads_total |-> csv[i].downloads_total,
         publish_month |-> to_period_M(csv[i].published_at)]]

\* lines 21-22: df.groupby('interval')['downloads_total'].sum().reset_index(),
\* one row per distinct interval in ascending order, plus its month
total_downloads_df(d) ==
    LET keys == Ascending({d[i].interval : i \in DOMAIN d})
    IN  [k \in DOMAIN keys |->
            [interval |-> keys[k],
             downloads_total |->
                 SeqSum(Column(Pick(d, {i \in DOMAIN d : d[i].interval = keys[k]}),
                               "downloads_total")),
             month |-> to_period_M(keys[k])]]

\* GroupBy.first(): the first value of one group
group_first_mutant(group) == group[1]

\* GroupBy.sum() of one group
group_sum_mutant(group) == SeqSum(group)

\* GroupBy.last(): the last value of one group, in row order
group_last(group) == group[Len(group)]

\* lines 23-24: total_downloads_df.groupby('month')['downloads_total'].last()
\* .reset_index(), with the month written as a string
monthly_downloads_of(tdf) ==
    LET keys == Ascending({tdf[i].month : i \in DOMAIN tdf})
    IN  [k \in DOMAIN keys |->
            [month |-> period_str(keys[k]),
             downloads_total |->
                 group_last(Column(Pick(tdf, {i \in DOMAIN tdf : tdf[i].month = keys[k]}),
                                   "downloads_total"))]]

\* no deduplication
drop_duplicates_mutant(d) == d

\* line 29: df.drop_duplicates(subset=['episode_title']), keeps the first
\* occurrence of each title
drop_duplicates(d) ==
    Pick(d, {i \in DOMAIN d :
                \A j \in 1..(i - 1) : d[j].episode_title # d[i].episode_title})

\* lines 30-32: unique_episodes_df.groupby('publish_month').size()
\* .reset_index(), columns renamed, the month written as a string
episodes_per_month_of(u) ==
    LET keys == Ascending({u[i].publish_month : i \in DOMAIN u})
    IN  [k \in DOMAIN keys |->
            [month |-> period_str(keys[k]),
             episode_count |->
                 Cardinality({i \in DOMAIN u : u[i].publish_month = keys[k]})]]

\* how='left': only the months of the left table
merge_left_mutant(left, right) ==
    [i \in DOMAIN left |->
        [month |-> left[i].month,
         downloads_total |-> Val(left[i].downloads_total),
         episode_count |->
             IF \E j \in DOMAIN right : right[j].month = left[i].month
             THEN Val(right[CHOOSE j \in DOMAIN right :
                               right[j].month = left[i].month].episode_count)
             ELSE NaN]]

\* line 35: pd.merge(monthly_downloads, episodes_per_month, on='month',
\* how='outer'): every pair of rows with equal month, then the rows of either
\* table that have no partner, with NaN for the other table's column
merge_outer(left, right) ==
    LET matched(i) == {j \in DOMAIN right : right[j].month = left[i].month}
        leftRows(i) ==
            IF matched(i) = {}
            THEN <<[month |-> left[i].month,
                    downloads_total |-> Val(left[i].downloads_total),
                    episode_count |-> NaN]>>
            ELSE [k \in 1..Cardinality(matched(i)) |->
                    [month |-> left[i].month,
                     downloads_total |-> Val(left[i].downloads_total),
                     episode_count |->
                         Val(right[Ascending(matched(i))[k]].episode_count)]]
        RECURSIVE LeftPart(_)
        LeftPart(i) == IF i > Len(left) THEN <<>> ELSE leftRows(i) \o LeftPart(i + 1)
        rightOnly == {j \in DOMAIN right :
                         \A i \in DOMAIN left : left[i].month # right[j].month}
        rightRows == [k \in 1..Cardinality(rightOnly) |->
                        [month |-> right[Ascending(rightOnly)[k]].month,
                         downloads_total |-> NaN,
                         episode_count |->
                             Val(right[Ascending(rightOnly)[k]].episode_count)]]
    IN  LeftPart(1) \o rightRows

\* line 35: DataFrame.fillna(0)
fillna_0(rows) ==
    [i \in DOMAIN rows |->
        [month |-> rows[i].month,
         downloads_total |-> fillna(rows[i].downloads_total, 0),
         episode_count |-> fillna(rows[i].episode_count, 0)]]

\* the rows left as merged
sort_values_month_mutant(rows) == rows

\* line 36: DataFrame.sort_values('month'), ascending order of the strings
RECURSIVE sort_values_month(_)
sort_values_month(rows) ==
    IF rows = <<>> THEN <<>>
    ELSE LET first == CHOOSE i \in DOMAIN rows :
                          /\ \A j \in DOMAIN rows : ~StrLess(rows[j].month, rows[i].month)
                          /\ \A j \in 1..(i - 1) : StrLess(rows[i].month, rows[j].month)
         IN  <<rows[first]>> \o sort_values_month(Pick(rows, DOMAIN rows \ {first}))

\* nothing has been served yet
NoResponse ==
    [callback |-> "none", value |-> NoSelection, raised |-> "", fig |-> <<>>,
     total_downloads |-> 0, latest_monthly_downloads |-> 0, children |-> <<>>]

Init ==
    /\ pc = "startup"
    /\ df = <<>>
    /\ monthly_downloads = <<>>
    /\ episodes_per_month = <<>>
    /\ all_months = <<>>
    /\ response = NoResponse

\* lines 14-36, run once when the module is imported
Startup ==
    /\ pc = "startup"
    /\ \E csv \in Datasets :
        LET d == with_publish_month(csv)
            md == monthly_downloads_of(total_downloads_df(d))
            epm == episodes_per_month_of(drop_duplicates(d))
        IN  /\ df' = d
            /\ monthly_downloads' = md
            /\ episodes_per_month' = epm
            /\ all_months' = sort_values_month(fillna_0(merge_outer(md, epm)))
    /\ pc' = "serving"
    /\ UNCHANGED response

(***************************************************************************)
(* Serving: the two callbacks.                                             *)
(***************************************************************************)
\* the figure depends on the dropdown value: only the months of the selected
\* episode's records are drawn
update_monthly_stats_graph_mutant(value) ==
    /\ pc = "serving"
    /\ LET shown == {i \in DOMAIN all_months :
                        \E j \in DOMAIN df :
                            /\ df[j].episode_title = value
                            /\ period_str(to_period_M(df[j].interval)) = all_months[i].month}
           rows == Pick(all_months, shown)
       IN  response' =
               [callback |-> "update_monthly_stats_graph", value |-> value, raised |-> "",
                fig |-> [x |-> Column(rows, "month"),
                         y |-> Column(rows, "downloads_total"),
                         y2 |-> Column(rows, "episode_count")],
                total_downloads |-> 0, latest_monthly_downloads |-> 0, children |-> <<>>]
    /\ UNCHANGED <<pc, df, monthly_downloads, episodes_per_month, all_months>>

\* lines 81-129: two bar traces over all_months; the argument is not read
update_monthly_stats_graph(value) ==
    /\ pc = "serving"
    /\ response' =
           [callback |-> "update_monthly_stats_graph", value |-> value, raised |-> "",
            fig |-> [x |-> Column(all_months, "month"),
                     y |-> Column(all_months, "downloads_total"),
                     y2 |-> Column(all_months, "episode_count")],
            total_downloads |-> 0, latest_monthly_downloads |-> 0, children |-> <<>>]
    /\ UNCHANGED <<pc, df, monthly_downloads, episodes_per_month, all_months>>

\* line 140: df[df['episode_title'] == selected_episode].copy(); None equals
\* no title
filter_episode(d, selected_episode) ==
    Pick(d, {i \in DOMAIN d : d[i].episode_title = selected_episode})

\* line 141: DataFrame.sort_values('interval').  The default sort is not
\* stable, so rows of equal interval come out in any order.
sort_values_interval(rows) ==
    LET n == Len(rows)
        orders == {o \in [1..n -> 1..n] :
                      /\ \A a, b \in 1..n : a # b => o[a] # o[b]
                      /\ \A a, b \in 1..n :
                            a < b => rows[o[a]].interval <= rows[o[b]].interval}
    IN  {[k \in 1..n |-> rows[o[k]]] : o \in orders}

\* Series.diff(): the first element has no predecessor
diff(s) == [i \in DOMAIN s |-> IF i = 1 THEN NaN ELSE Val(s[i] - s[i - 1])]

\* .diff().fillna(0)
monthly_downloads_column_mutant(s) == [i \in DOMAIN s |-> fillna(diff(s)[i], 0)]

\* line 147: filtered_df['downloads_total'].diff()
\* .fillna(filtered_df['downloads_total'])
monthly_downloads_column(s) == [i \in DOMAIN s |-> fillna(diff(s)[i], s[i])]

\* lines 143-172 on the sorted rows of the selected episode
update_graph_return(selected_episode, filtered_df) ==
    IF filtered_df = <<>>
    THEN \* line 144: .iloc[0] of an empty column raises IndexError
         [callback |-> "update_graph", value |-> selected_episode,
          raised |-> "IndexError", fig |-> <<>>,
          total_downloads |-> 0, latest_monthly_downloads |-> 0, children |-> <<>>]
    ELSE LET publish_date == strftime(filtered_df[1].published_at)
             monthly == monthly_downloads_column(Column(filtered_df, "downloads_total"))
             total_downloads == SeqSum(monthly)
             latest_monthly_downloads == monthly[Len(monthly)]
         IN  [callback |-> "update_graph", value |-> selected_episode, raised |-> "",
              fig |-> [x |-> Column(filtered_df, "interval"),
                       y |-> Column(filtered_df, "downloads_total"),
                       title |-> <<selected_episode, publish_date,
                                   FormatThousands(total_downloads)>>],
              total_downloads |-> total_downloads,
              latest_monthly_downloads |-> latest_monthly_downloads,
              children |-> <<FormatThousands(total_downloads),
                             FormatThousands(latest_monthly_downloads)>>]

\* the handler sorts the shared table itself instead of its own copy
update_graph_mutant(selected_episode) ==
    /\ pc = "serving"
    /\ \E filtered_df \in sort_values_interval(filter_episode(df, selected_episode)) :
           response' = update_graph_return(selected_episode, filtered_df)
    /\ df' \in sort_values_interval(df)
    /\ UNCHANGED <<pc, monthly_downloads, episodes_per_month, all_months>>

\* lines 138-172
update_graph(selected_episode) ==
    /\ pc = "serving"
    /\ \E filtered_df \in sort_values_interval(filter_episode(df, selected_episode)) :
           response' = update_graph_return(selected_episode, filtered_df)
    /\ UNCHANGED <<pc, df, monthly_downloads, episodes_per_month, all_months>>

Next ==
    \/ Startup
    \/ \E value \in Selections : update_monthly_stats_graph(value)
    \/ \E value \in Selections : update_graph(value)

Spec == Init /\ [][Next]_vars

(***************************************************************************)
(* Vocabulary of the properties, read off the loaded table df.             *)
(***************************************************************************)
Serving == pc = "serving"

RECURSIVE SumDownloads(_)
\* the sum of downloads_total over the records at the positions in I
SumDownloads(I) ==
    IF I = {} THEN 0
    ELSE LET i == Min(I) IN df[i].downloads_total + SumDownloads(I \ {i})

RecordsOf(e) == {i \in DOMAIN df : df[i].episode_title = e}

KnownTitles == {df[i].episode_title : i \in DOMAIN df}

IntervalMonth(i) == to_period_M(df[i].interval)

\* the months that have at least one recorded interval
MonthsWithIntervals == {IntervalMonth(i) : i \in DOMAIN df}

RecordsIn(p) == {i \in DOMAIN df : IntervalMonth(i) = p}

\* the latest interval of any episode that falls in month p
LatestInterval(p) == Max({df[i].interval : i \in RecordsIn(p)})

\* the episodes that have a record in month p
EpisodesIn(p) == {df[i].episode_title : i \in RecordsIn(p)}

\* the last interval of episode e within month p
OwnLastInterval(e, p) == Max({df[i].interval : i \in RecordsIn(p) \cap RecordsOf(e)})

\* the cumulative downloads of episode e at its own last interval in month p
OwnLastValue(e, p) ==
    SumDownloads({i \in RecordsOf(e) : df[i].interval = OwnLastInterval(e, p)})

RECURSIVE SumOwnLastValues(_, _)
SumOwnLastValues(E, p) ==
    IF E = {} THEN 0
    ELSE LET e == CHOOSE x \in E : TRUE
         IN  OwnLastValue(e, p) + SumOwnLastValues(E \ {e}, p)

RowsOfMonth(table, m) == {i \in DOMAIN table : table[i].month = m}

MonthKeys(table) == {table[i].month : i \in DOMAIN table}

\* the row of the monthly table for month p has downloads_total n
MonthlyFigureIs(p, n) ==
    \E i \in DOMAIN all_months :
        /\ all_months[i].month = period_str(p)
        /\ all_months[i].downloads_total = n

\* the month in which episode e counts as published: that of its first record
FirstRecord(e) == Min(RecordsOf(e))

PublishMonthKey(e) == period_str(to_period_M(df[FirstRecord(e)].published_at))

GraphServed == response.callback = "update_graph" /\ response.raised = ""

(***************************************************************************)
(* C1: update_graph called with a title that matches no record does not    *)
(* fail; it returns a placeholder chart and stat values.                   *)
(***************************************************************************)
C1_AbsentTitleDoesNotRaise ==
    (/\ response.callback = "update_graph"
     /\ response.value \notin KnownTitles) => response.raised = ""

(***************************************************************************)
(* C2: for every month with a recorded interval, the monthly table's       *)
(* downloads_total is the sum of downloads_total over exactly the records  *)
(* whose interval is the latest interval of that month.                    *)
(***************************************************************************)
C2_MonthlyFigureIsLatestIntervalSum ==
    Serving =>
        \A p \in MonthsWithIntervals :
            MonthlyFigureIs(p, SumDownloads({i \in DOMAIN df :
                                                df[i].interval = LatestInterval(p)}))

\* a month with two intervals, the earlier one with downloads
C2_Witness ==
    /\ Serving
    /\ \E i, j \in DOMAIN df :
          /\ IntervalMonth(i) = IntervalMonth(j)
          /\ df[i].interval < df[j].interval
          /\ df[i].downloads_total > 0
          /\ df[j].downloads_total > 0

(***************************************************************************)
(* C3: the merged table has exactly one row for every month of the         *)
(* downloads series or of the episode-count series and no other row; the   *)
(* metric a month lacks in its own series is 0.                            *)
(***************************************************************************)
C3_MergedTableCoversBothSeries ==
    Serving =>
        LET inDownloads == MonthKeys(monthly_downloads)
            inEpisodes == MonthKeys(episodes_per_month)
        IN  /\ MonthKeys(all_months) = inDownloads \cup inEpisodes
            /\ \A m \in inDownloads \cup inEpisodes :
                   Cardinality(RowsOfMonth(all_months, m)) = 1
            /\ \A i \in DOMAIN all_months :
                   /\ all_months[i].month \notin inDownloads
                          => all_months[i].downloads_total = 0
                   /\ all_months[i].month \notin inEpisodes
                          => all_months[i].episode_count = 0

\* one month only in the episode-count series, another only in the
\* downloads series
C3_Witness ==
    /\ Serving
    /\ MonthKeys(episodes_per_month) \ MonthKeys(monthly_downloads) # {}
    /\ MonthKeys(monthly_downloads) \ MonthKeys(episodes_per_month) # {}

(***************************************************************************)
(* C4: the rows of the merged monthly table are in strictly ascending      *)
(* order of the month key, so no two rows carry the same month.            *)
(***************************************************************************)
C4_StrictlyAscendingMonths ==
    \A i \in DOMAIN all_months :
        \A j \in DOMAIN all_months :
            i < j => /\ StrLess(all_months[i].month, all_months[j].month)
                     /\ \E p, q \in {to_period_M(t) : t \in Timestamps} :
                            /\ p < q
                            /\ period_str(p) = all_months[i].month
                            /\ period_str(q) = all_months[j].month

\* a month that only the episode-count series has lies before a month of the
\* downloads series: the merge alone leaves it behind
C4_Witness ==
    /\ Serving
    /\ \E m \in MonthKeys(episodes_per_month) \ MonthKeys(monthly_downloads) :
           \E n \in MonthKeys(monthly_downloads) : StrLess(m, n)

(***************************************************************************)
(* C5: for an episode of the dataset, the total-downloads figure of        *)
(* update_graph (the sum of the deltas) is the episode's cumulative        *)
(* downloads_total at its latest interval, also when the cumulative        *)
(* values decrease.                                                        *)
(***************************************************************************)
C5_TotalIsFinalCumulative ==
    GraphServed =>
        LET mine == RecordsOf(response.value)
            latest == Max({df[i].interval : i \in mine})
        IN  response.total_downloads \in
                {df[i].downloads_total : i \in {k \in mine : df[k].interval = latest}}

\* the served episode has a later interval with fewer downloads
C5_Witness ==
    /\ GraphServed
    /\ \E i, j \in RecordsOf(response.value) :
          /\ df[i].interval < df[j].interval
          /\ df[i].downloads_total > df[j].downloads_total
    /\ Cardinality(RecordsOf(response.value)) = MaxRows

(***************************************************************************)
(* C6 as stated: for an episode with exactly one recorded interval,        *)
(* update_graph reports total and latest-period downloads both equal to    *)
(* the single cumulative value.                                            *)
(***************************************************************************)
C6_SingleIntervalAsStated ==
    GraphServed =>
        LET mine == RecordsOf(response.value) IN
        \A v \in Downloads :
            (/\ Cardinality({df[i].interval : i \in mine}) = 1
             /\ {df[i].downloads_total : i \in mine} = {v})
            => /\ response.total_downloads = v
               /\ response.latest_monthly_downloads = v

(***************************************************************************)
(* C6 amended: for an episode with exactly one record, update_graph        *)
(* reports total and latest-period downloads both equal to that record's   *)
(* downloads_total.                                                        *)
(***************************************************************************)
C6_SingleRecord ==
    GraphServed =>
        LET mine == RecordsOf(response.value) IN
        Cardinality(mine) = 1 =>
            \A i \in mine :
                /\ response.total_downloads = df[i].downloads_total
                /\ response.latest_monthly_downloads = df[i].downloads_total

\* an episode with one record and downloads is served, among other records
C6_Witness ==
    /\ GraphServed
    /\ Cardinality(RecordsOf(response.value)) = 1
    /\ response.total_downloads > 0
    /\ Len(df) > 1

(***************************************************************************)
(* C7: each distinct title adds 1 to the episode_count of the month of the *)
(* published_at of its first record and to no other month; the counts sum  *)
(* to the number of distinct titles.                                       *)
(***************************************************************************)
C7_EachTitleCountedOnce ==
    Serving =>
        /\ \A e \in KnownTitles : PublishMonthKey(e) \in MonthKeys(all_months)
        /\ \A i \in DOMAIN all_months :
               all_months[i].episode_count =
                   Cardinality({e \in KnownTitles : PublishMonthKey(e) = all_months[i].month})
        /\ SeqSum(Column(all_months, "episode_count")) = Cardinality(KnownTitles)

\* an episode has several records, with different published_at months
C7_Witness ==
    /\ Serving
    /\ \E i, j \in DOMAIN df :
          /\ df[i].episode_title = df[j].episode_title
          /\ df[i].publish_month # df[j].publish_month

(***************************************************************************)
(* C8: no request changes the loaded table df or the precomputed           *)
(* all_months, whatever the order and the values of the requests.          *)
(***************************************************************************)
C8_RequestsLeaveDataUnchanged ==
    [][Serving => (df' = df /\ all_months' = all_months)]_vars

\* update_graph has served an episode whose records are not in interval
\* order in df
C8_Witness ==
    /\ GraphServed
    /\ \E i, j \in RecordsOf(response.value) :
          i < j /\ df[i].interval > df[j].interval

(***************************************************************************)
(* C9 as stated: for every month, the monthly figure is the sum over       *)
(* episodes of each episode's cumulative downloads_total at its own last   *)
(* interval within the month.                                              *)
(***************************************************************************)
C9_SumOfOwnLastIntervalsAsStated ==
    Serving =>
        \A p \in MonthsWithIntervals :
            MonthlyFigureIs(p, SumOwnLastValues(EpisodesIn(p), p))

(***************************************************************************)
(* C9 amended: for every month, the monthly figure is the sum, over the    *)
(* episodes whose own last interval within the month is the month's latest *)
(* interval, of the episode's cumulative downloads_total at that interval; *)
(* an episode last recorded earlier in the month adds nothing.             *)
(***************************************************************************)
C9_SumOverEpisodesAtLatestInterval ==
    Serving =>
        \A p \in MonthsWithIntervals :
            MonthlyFigureIs(p,
                SumOwnLastValues({e \in EpisodesIn(p) :
                                     OwnLastInterval(e, p) = LatestInterval(p)}, p))

\* two episodes with downloads whose last intervals in one month differ
C9_Witness ==
    /\ Serving
    /\ \E p \in MonthsWithIntervals :
           \E e, f \in EpisodesIn(p) :
               /\ OwnLastInterval(e, p) < OwnLastInterval(f, p)
               /\ OwnLastValue(e, p) > 0
               /\ OwnLastValue(f, p) > 0

(***************************************************************************)
(* C10: whatever the selection value, update_monthly_stats_graph yields    *)
(* the month, downloads_total and episode_count columns of all_months.     *)
(***************************************************************************)
C10_MonthlyViewIgnoresSelection ==
    response.callback = "update_monthly_stats_graph" =>
        /\ DOMAIN response.fig.x = DOMAIN all_months
        /\ \A i \in DOMAIN all_months :
               /\ response.fig.x[i] = all_months[i].month
               /\ response.fig.y[i] = all_months[i].downloads_total
               /\ response.fig.y2[i] = all_months[i].episode_count

\* the monthly view is served for a title that no record has, over a table
\* of several months
C10_Witness ==
    /\ response.callback = "update_monthly_stats_graph"
    /\ response.value = UnknownTitle
    /\ Len(all_months) > 1

====
